---- MODULE Spec2Model ----
(***************************************************************************)
(* Command palette dialog of Notesnook                                     *)
(* (apps/web/src/dialogs/command-palette/command-palette-dialog.tsx).      *)
(*                                                                         *)
(* Strings (queries, titles) are sequences of one-character strings.       *)
(* Array indices of the source are 0-based; sequences here are 1-based, so *)
(* commands[selected.y] of the source is commands[selected.y + 1] here and *)
(* a findIndex result of -1 is 0 here.                                     *)
(***************************************************************************)
EXTENDS Integers, Sequences, FiniteSets, TLC

VARIABLES
  COMMANDS,   \* the command registry imported from ./commands
  recent,     \* Config "commandPalette:recent": the persisted recency cache
  commands,   \* useState: the displayed (flattened) command list
  selected,   \* useState: the cursor, [x |-> col, y |-> row]
  query,      \* useState: the query
  loading,    \* useState: the loading indicator
  pending,    \* onChange calls suspended at `await search(query)`, in issue order
  open,       \* FALSE once props.onClose was called, until the dialog is opened again
  lastEvent,  \* ghost: the handler (or function called directly) that ran last
  cacheCall,  \* ghost: the call of addRecentCommand / removeRecentCommand it made
  invoked,    \* the action call made by the last handler
  error,      \* the error raised by the last handler
  stored,     \* whether the last handler called Config.set
  addOrder,   \* ghost: the ids in the store, the one given to addRecentCommand last first
  input,      \* the argument of a function called on its own
  output      \* what that function returned

vars == <<COMMANDS, recent, commands, selected, query, loading, pending, open,
          lastEvent, cacheCall, invoked, error, stored, addOrder, input, output>>

-----------------------------------------------------------------------------
(* Bounds and program constants *)

\* at most this many onChange calls are suspended at their await at a time
MaxPending == 1

\* the strings given to isCommandMode and prepareQuery have at most this many characters
MaxRawLen == 4

\* the lists given to sortCommands have at most this many commands
MaxSortLen == 4

\* the registries given to resolveCommands have at most this many entries
MaxRegistryLen == 3

\* addRecentCommand keeps the first 3 entries
RecentCapacity == 3

-----------------------------------------------------------------------------
(* Values *)

Undefined == "undefined"
\* undefined where a title, a sequence of characters, is expected
NoTitle == <<Undefined>>
NoCall == [fn |-> Undefined, arg |-> Undefined]
NoCacheCall == [fn |-> Undefined]

Sx == <<"x">>
Sy == <<"y">>
Sxy == <<"x", "y">>

\* Command (interface Command); highlightedTitle is Undefined or "set"
Cmd(id, title, type, group) ==
  [id |-> id, title |-> title, highlightedTitle |-> Undefined, type |-> type, group |-> group]

\* an entry of the registry: title and group resolved, hidden() evaluated
Entry(id, title, group, hidden, dynamic) ==
  [id |-> id, title |-> title, group |-> group, hidden |-> hidden, dynamic |-> dynamic,
   action |-> <<"action", id, group>>]

\* a registry with its groups in contiguous runs
RegistryContiguous ==
  << Entry("c1", Sx, "G1", FALSE, FALSE),
     Entry("c3", Sy, "G1", FALSE, FALSE),
     Entry("c2", Sxy, "G2", FALSE, TRUE),
     Entry("c1", Sy, "G2", FALSE, FALSE),
     Entry("c4", Sx, "G2", TRUE, FALSE) >>

\* a registry with a group in two runs
RegistryInterleaved ==
  << Entry("c1", Sx, "G1", FALSE, FALSE),
     Entry("c2", Sxy, "G2", FALSE, TRUE),
     Entry("c3", Sy, "G1", FALSE, FALSE),
     Entry("c1", Sy, "G2", FALSE, FALSE),
     Entry("c4", Sx, "G2", TRUE, FALSE) >>

\* the registries the dialog is run against; both hold a repeated id, a hidden
\* entry and a dynamic entry
Registries == {RegistryContiguous, RegistryInterleaved}

\* useEditorStore.getState().get().sessions
sessions ==
  << [id |-> "n1", title |-> Sx, type |-> "default"],
     [id |-> "s0", title |-> Sy, type |-> "new"] >>

\* the entities of the database, by lookup
dbNotes == << [id |-> "n1", title |-> Sx, type |-> "note"] >>
dbNotebooks == << [id |-> "b1", title |-> Sxy, type |-> "notebook"] >>
dbTags == << >>
dbReminders == << >>

\* the values typed into the field
Queries == { <<>>, <<">">>, <<">", "x", "y">>, <<"x">>, <<"z">> }

-----------------------------------------------------------------------------
(* Helpers for arrays *)

RECURSIVE FindIndexFrom(_, _, _)
FindIndexFrom(seq, P(_), i) ==
  IF i > Len(seq) THEN 0
  ELSE IF P(seq[i]) THEN i
  ELSE FindIndexFrom(seq, P, i + 1)

\* Array.prototype.findIndex, 1-based; 0 when no element satisfies P
FindIndex(seq, P(_)) == FindIndexFrom(seq, P, 1)

\* Array.prototype.splice(index, 1)
Splice1(seq, index) == SubSeq(seq, 1, index - 1) \o SubSeq(seq, index + 1, Len(seq))

RECURSIVE Flat(_)
\* Array.prototype.flat
Flat(seqs) == IF seqs = <<>> THEN <<>> ELSE Head(seqs) \o Flat(Tail(seqs))

RECURSIVE MapSeq(_, _)
\* Array.prototype.map
MapSeq(F(_), seq) ==
  IF seq = <<>> THEN <<>> ELSE <<F(Head(seq))>> \o MapSeq(F, Tail(seq))

\* every ordering of a sequence
Orderings(seq) ==
  IF Len(seq) <= 1 THEN {seq}
  ELSE { [i \in 1..Len(seq) |-> seq[p[i]]] : p \in Permutations(1..Len(seq)) }

-----------------------------------------------------------------------------
(* Query classifier: isCommandMode, prepareQuery *)

isCommandMode(q) == Len(q) > 0 /\ q[1] = ">"

\* the white space of String.prototype.trim that the queries here hold
WhiteSpace == {" ", "\t"}

RECURSIVE trimStart(_)
trimStart(s) == IF s # <<>> /\ Head(s) \in WhiteSpace THEN trimStart(Tail(s)) ELSE s

RECURSIVE trimEnd(_)
trimEnd(s) ==
  IF s # <<>> /\ s[Len(s)] \in WhiteSpace THEN trimEnd(SubSeq(s, 1, Len(s) - 1)) ELSE s

\* String.prototype.trim
trim(s) == trimEnd(trimStart(s))

\* prepareQuery without .trim() after query.substring(1)
prepareQueryUntrimmed(q) ==
  IF isCommandMode(q) THEN SubSeq(q, 2, Len(q)) ELSE trim(q)

prepareQuery(q) ==
  IF isCommandMode(q) THEN trim(SubSeq(q, 2, Len(q))) ELSE trim(q)

-----------------------------------------------------------------------------
(* Fuzzy matching (@notesnook/core) *)

RECURSIVE IsSubsequence(_, _)
\* the characters of q occur in title in order, not necessarily contiguously
IsSubsequence(q, title) ==
  IF q = <<>> THEN TRUE
  ELSE IF title = <<>> THEN FALSE
  ELSE IF Head(q) = Head(title) THEN IsSubsequence(Tail(q), Tail(title))
  ELSE IsSubsequence(q, Tail(title))

fuzzyMatching(q, items) == SelectSeq(items, LAMBDA c : IsSubsequence(q, c.title))

\* fuzzy(query, items, key, options): the results it may return.  An empty query
\* returns the items as they are; otherwise the items that do not match are
\* dropped and the others are ordered by match quality, which is left open here
fuzzy(q, items) ==
  IF q = <<>> THEN {items} ELSE Orderings(fuzzyMatching(q, items))

\* res.map((r) => ({...r, highlightedTitle: r.title})) and the highlighting of fuzzy
withHighlightedTitle(items) ==
  MapSeq(LAMBDA r : [r EXCEPT !.highlightedTitle = "set"], items)

-----------------------------------------------------------------------------
(* Registry *)

RECURSIVE resolveFrom(_, _, _)
resolveFrom(registry, i, acc) ==
  IF i > Len(registry) THEN acc
  ELSE LET command == registry[i] IN
    IF FindIndex(acc, LAMBDA c : c.id = command.id) # 0
      THEN resolveFrom(registry, i + 1, acc)
    ELSE IF command.hidden \/ command.group = Undefined \/ command.title = NoTitle
      THEN resolveFrom(registry, i + 1, acc)
    ELSE resolveFrom(registry, i + 1,
           Append(acc, Cmd(command.id, command.title,
                           IF command.dynamic THEN "command-dynamic" ELSE "command",
                           command.group)))

\* resolveCommands without `if (acc.find((c) => c.id === command.id)) return acc`
resolveCommandsUndeduplicated(registry) ==
  MapSeq(LAMBDA command :
             Cmd(command.id, command.title,
                 IF command.dynamic THEN "command-dynamic" ELSE "command",
                 command.group),
         SelectSeq(registry,
                   LAMBDA command : ~(command.hidden \/ command.group = Undefined
                                        \/ command.title = NoTitle)))

\* resolveCommands(): COMMANDS.reduce(..., [])
resolveCommands(registry) == resolveFrom(registry, 1, <<>>)

RECURSIVE actionMapFrom(_, _, _)
actionMapFrom(registry, i, id) ==
  IF i = 0 THEN Undefined
  ELSE IF registry[i].id = id THEN registry[i].action
  ELSE actionMapFrom(registry, i - 1, id)

\* CommandActionMap.get(id): acc.set overwrites, the last entry of an id stays
CommandActionMap(registry, id) == actionMapFrom(registry, Len(registry), id)

getCommandAction(registry, id, type) ==
  CASE type \in {"command", "command-dynamic"} -> CommandActionMap(registry, id)
    [] type = "note" -> "openSession"
    [] type = "notebook" -> "navigate /notebooks/"
    [] type = "tag" -> "navigate /tags/"
    [] type = "reminder" -> "hashNavigate /reminders/"
    [] OTHER -> Undefined

-----------------------------------------------------------------------------
(* Recency cache *)

\* getRecentCommands(): Config.get("commandPalette:recent", [])
getRecentCommands(store) == store

\* addRecentCommand without `if (commands.length > 3) commands = commands.slice(0, 3)`
addRecentCommandUntruncated(store, command) ==
  IF command.type = "command-dynamic" THEN store
  ELSE LET cached == getRecentCommands(store)
           index == FindIndex(cached, LAMBDA c : c.id = command.id)
           spliced == IF index > 0 THEN Splice1(cached, index) ELSE cached
       IN <<[command EXCEPT !.highlightedTitle = Undefined, !.group = "recent"]>> \o spliced

\* addRecentCommand with the found entry overwritten in place instead of
\* spliced out and unshifted
addRecentCommandInPlace(store, command) ==
  IF command.type = "command-dynamic" THEN store
  ELSE LET cached == getRecentCommands(store)
           index == FindIndex(cached, LAMBDA c : c.id = command.id)
           entry == [command EXCEPT !.highlightedTitle = Undefined, !.group = "recent"]
           unshifted == IF index > 0 THEN [cached EXCEPT ![index] = entry]
                        ELSE <<entry>> \o cached
       IN IF Len(unshifted) > RecentCapacity
            THEN SubSeq(unshifted, 1, RecentCapacity)
            ELSE unshifted

\* addRecentCommand without `if (command.type === "command-dynamic") return`
addRecentCommandAnyType(store, command) ==
  LET cached == getRecentCommands(store)
      index == FindIndex(cached, LAMBDA c : c.id = command.id)
      spliced == IF index > 0 THEN Splice1(cached, index) ELSE cached
      unshifted == <<[command EXCEPT !.highlightedTitle = Undefined,
                                     !.group = "recent"]>> \o spliced
  IN IF Len(unshifted) > RecentCapacity
       THEN SubSeq(unshifted, 1, RecentCapacity)
       ELSE unshifted

\* the value addRecentCommand leaves in the store
addRecentCommand(store, command) ==
  IF command.type = "command-dynamic" THEN store
  ELSE LET cached == getRecentCommands(store)
           index == FindIndex(cached, LAMBDA c : c.id = command.id)
           spliced == IF index > 0 THEN Splice1(cached, index) ELSE cached
           unshifted == <<[command EXCEPT !.highlightedTitle = Undefined,
                                          !.group = "recent"]>> \o spliced
       IN IF Len(unshifted) > RecentCapacity
            THEN SubSeq(unshifted, 1, RecentCapacity)
            ELSE unshifted

\* whether addRecentCommand reaches its Config.set
addRecentCommandSets(command) == command.type # "command-dynamic"

\* the value removeRecentCommand leaves in the store
removeRecentCommand(store, id) ==
  LET cached == getRecentCommands(store)
      index == FindIndex(cached, LAMBDA c : c.id = id)
  IN IF index > 0 THEN Splice1(cached, index) ELSE store

\* removeRecentCommand with Config.set after the `if (index > -1)` block
removeRecentCommandSetsAlways(store, id) == TRUE

\* whether removeRecentCommand reaches its Config.set
removeRecentCommandSets(store, id) ==
  FindIndex(getRecentCommands(store), LAMBDA c : c.id = id) > 0

\* getDefaultCommands without `getRecentCommands().concat(`
getDefaultCommandsRegistryOnly(store, registry) == resolveCommands(registry)

getDefaultCommands(store, registry) == getRecentCommands(store) \o resolveCommands(registry)

-----------------------------------------------------------------------------
(* Sources, sorting, grouping *)

\* strings.dataTypesCamelCase[type]()
dataTypesCamelCase(type) ==
  CASE type = "note" -> "Note"
    [] type = "notebook" -> "Notebook"
    [] type = "tag" -> "Tag"
    [] type = "reminder" -> "Reminder"

getSessionsAsCommands ==
  LET kept == SelectSeq(sessions, LAMBDA s : s.type # "new")
  IN MapSeq(LAMBDA session :
                Cmd(session.id, session.title, "note", dataTypesCamelCase("note")),
              kept)

\* db.lookup.<collection>(query, {titleOnly: true}).items()
lookup(items, q) == SelectSeq(items, LAMBDA item : IsSubsequence(q, item.title))

\* dbSearch(query), when no lookup fails
dbSearch(q) ==
  LET list == Flat(<<lookup(dbNotes, q), lookup(dbNotebooks, q),
                     lookup(dbTags, q), lookup(dbReminders, q)>>)
  IN MapSeq(LAMBDA item :
                Cmd(item.id, item.title, item.type, dataTypesCamelCase(item.type)),
              list)

\* commandSearch(query): the results fuzzy may return
commandSearch(store, registry, q) == fuzzy(q, getDefaultCommands(store, registry))

RECURSIVE sortFrom(_, _, _, _)
sortFrom(cmds, i, recentPart, sortedWrtGroups) ==
  IF i > Len(cmds) THEN recentPart \o Flat(sortedWrtGroups)
  ELSE LET command == cmds[i]
           group == command.group
           index == FindIndex(sortedWrtGroups, LAMBDA c : c[1].group = group)
       IN IF group = "recent"
            THEN sortFrom(cmds, i + 1, Append(recentPart, command), sortedWrtGroups)
          ELSE IF index = 0
            THEN sortFrom(cmds, i + 1, recentPart, Append(sortedWrtGroups, <<command>>))
          ELSE sortFrom(cmds, i + 1, recentPart,
                 [sortedWrtGroups EXCEPT ![index] = Append(@, command)])

\* sortCommands returning sortedWrtGroups.flat().concat(recent)
sortCommandsRecentLast(cmds) ==
  LET sorted == sortFrom(cmds, 1, <<>>, <<>>)
  IN SelectSeq(sorted, LAMBDA c : c.group # "recent")
       \o SelectSeq(sorted, LAMBDA c : c.group = "recent")

sortCommands(cmds) == sortFrom(cmds, 1, <<>>, <<>>)

RECURSIVE groupedFrom(_, _, _)
groupedFrom(cmds, i, acc) ==
  IF i > Len(cmds) THEN acc
  ELSE LET command == cmds[i]
           item == FindIndex(acc, LAMBDA c : c.group = command.group)
       IN IF item # 0
            THEN groupedFrom(cmds, i + 1, [acc EXCEPT ![item].count = @ + 1])
            ELSE groupedFrom(cmds, i + 1, Append(acc, [group |-> command.group, count |-> 1]))

\* the useMemo `grouped`: commands.reduce(..., [])
grouped(cmds) == groupedFrom(cmds, 1, <<>>)

\* the lists onChange may pass to setCommands, given what search(query) returned
onChangeResults(q, res) ==
  { sortCommands(h) : h \in fuzzy(prepareQuery(q), withHighlightedTitle(res)) }

-----------------------------------------------------------------------------
(* Cursor *)

Origin == [x |-> 0, y |-> 0]

\* commands[selected.y] is not undefined
HasCurrent(sel, cmds) == sel.y + 1 \in 1..Len(cmds)

\* the four functions read currentCommand.group: a TypeError when it is undefined
moveSelectionThrows(sel, cmds) == ~HasCurrent(sel, cmds)

moveSelectionDown(sel, cmds) ==
  LET currentCommand == cmds[sel.y + 1]
      nextIndex == (sel.y + 1) % Len(cmds)
      nextCommand == cmds[nextIndex + 1]
  IN IF currentCommand.group = "recent" /\ nextCommand.group = "recent"
       THEN [x |-> sel.x, y |-> nextIndex]
       ELSE [x |-> 0, y |-> nextIndex]

moveSelectionUp(sel, cmds) ==
  LET currentCommand == cmds[sel.y + 1]
      nextIndex == (sel.y - 1 + Len(cmds)) % Len(cmds)
      nextCommand == cmds[nextIndex + 1]
  IN IF currentCommand.group = "recent" /\ nextCommand.group = "recent"
       THEN [x |-> sel.x, y |-> nextIndex]
       ELSE [x |-> 0, y |-> nextIndex]

\* moveSelectionRight without `if (currentCommand.group !== "recent") return selected`
moveSelectionRightAnyGroup(sel, cmds) == [x |-> (sel.x + 1) % 2, y |-> sel.y]

moveSelectionRight(sel, cmds) ==
  LET currentCommand == cmds[sel.y + 1]
  IN IF currentCommand.group # "recent" THEN sel
     ELSE [x |-> (sel.x + 1) % 2, y |-> sel.y]

moveSelectionLeft(sel, cmds) ==
  LET currentCommand == cmds[sel.y + 1]
  IN IF currentCommand.group # "recent" THEN sel
     ELSE [x |-> (sel.x - 1 + 2) % 2, y |-> sel.y]

-----------------------------------------------------------------------------
(* The dialog *)

\* ghost: the ids of order that are still in the store
Stored(order, store) ==
  SelectSeq(order, LAMBDA id : \E i \in 1..Len(store) : store[i].id = id)

\* ghost: addOrder after addRecentCommand(command) left store; a dynamic command
\* is not added
Touch(order, command, store) ==
  IF command.type = "command-dynamic" THEN order
  ELSE Stored(<<command.id>> \o SelectSeq(order, LAMBDA id : id # command.id), store)

\* ghost: addRecentCommand(command) called on store; found: an entry had its id
AddCall(store, command) ==
  [fn |-> "addRecentCommand", arg |-> command,
   found |-> \E i \in 1..Len(store) : store[i].id = command.id]

\* ghost: removeRecentCommand(id) called on store; found: an entry had the id
RemoveCall(store, id) ==
  [fn |-> "removeRecentCommand", arg |-> id,
   found |-> \E i \in 1..Len(store) : store[i].id = id]

\* what a handler did besides setting state
Effects(event, cache, call, err, set) ==
  /\ lastEvent' = event
  /\ cacheCall' = cache
  /\ invoked' = call
  /\ error' = err
  /\ stored' = set

\* useState initial values of a dialog opened with props.isCommandMode = mode
Mount(mode, store, registry) ==
  /\ commands' = IF mode THEN getDefaultCommands(store, registry) ELSE getSessionsAsCommands
  /\ selected' = Origin
  /\ query' = IF mode THEN <<">">> ELSE <<>>
  /\ loading' = FALSE

Init ==
  /\ COMMANDS \in Registries
  /\ recent = <<>>
  /\ \E mode \in BOOLEAN :
       /\ commands = IF mode THEN getDefaultCommands(<<>>, COMMANDS) ELSE getSessionsAsCommands
       /\ query = IF mode THEN <<">">> ELSE <<>>
  /\ selected = Origin
  /\ loading = FALSE
  /\ pending = <<>>
  /\ open = TRUE
  /\ lastEvent = "open"
  /\ cacheCall = NoCacheCall
  /\ invoked = NoCall
  /\ error = "none"
  /\ stored = FALSE
  /\ addOrder = <<>>
  /\ input = Undefined
  /\ output = Undefined

\* the suspended calls, none of them the most recently issued one any more
Superseded(calls) == MapSeq(LAMBDA p : [p EXCEPT !.latest = FALSE], calls)

\* onChange with a query whose search(query) is no promise (commandSearch,
\* getSessionsAsCommands): the code after the await runs as a microtask of the
\* same event, before any other handler
OnChangeImmediate(q) ==
  /\ open
  /\ isCommandMode(q) \/ Len(prepareQuery(q)) < 1
  /\ selected' = Origin
  /\ query' = q
  /\ \E list \in IF isCommandMode(q)
                   THEN UNION { onChangeResults(q, res) :
                                  res \in commandSearch(recent, COMMANDS, prepareQuery(q)) }
                   ELSE onChangeResults(q, getSessionsAsCommands) :
       commands' = list
  /\ loading' = FALSE
  /\ pending' = Superseded(pending)
  /\ Effects("onChange", NoCacheCall, NoCall, "none", FALSE)
  /\ UNCHANGED <<input, output, COMMANDS, recent, open, addOrder>>

\* onChange up to `await search(query)` with a query that goes to dbSearch
OnChangeLookup(q) ==
  /\ open
  /\ ~isCommandMode(q) /\ Len(prepareQuery(q)) >= 1
  /\ Len(pending) < MaxPending
  /\ selected' = Origin
  /\ query' = q
  /\ loading' = TRUE
  /\ pending' = Append(Superseded(pending), [query |-> q, latest |-> TRUE])
  /\ Effects("onChange", NoCacheCall, NoCall, "none", FALSE)
  /\ UNCHANGED <<input, output, COMMANDS, recent, commands, open, addOrder>>

\* onChange from the await on, the search of pending[i] having returned
SearchDone(i) ==
  /\ open
  /\ i \in 1..Len(pending)
  /\ \E list \in onChangeResults(pending[i].query, dbSearch(prepareQuery(pending[i].query))) :
       commands' = list
  /\ loading' = FALSE
  /\ pending' = Splice1(pending, i)
  /\ Effects("searchDone", NoCacheCall, NoCall, "none", FALSE)
  /\ UNCHANGED <<input, output, COMMANDS, recent, selected, query, open, addOrder>>

\* onChange with `try { ... } finally { setLoading(false) }` left out: the failed
\* search rejects the promise of onChange and nothing else runs
SearchFailNoFinally(i) ==
  /\ open
  /\ i \in 1..Len(pending)
  /\ pending' = Splice1(pending, i)
  /\ Effects("searchFail", NoCacheCall, NoCall, "rejected", FALSE)
  /\ UNCHANGED <<input, output, COMMANDS, recent, commands, selected, query, loading,
                 open, addOrder>>

\* onChange from the await on, the search of pending[i] having failed:
\* only the finally block runs and the promise of onChange is rejected
SearchFail(i) ==
  /\ open
  /\ i \in 1..Len(pending)
  /\ loading' = FALSE
  /\ pending' = Splice1(pending, i)
  /\ Effects("searchFail", NoCacheCall, NoCall, "rejected", FALSE)
  /\ UNCHANGED <<input, output, COMMANDS, recent, commands, selected, query, open, addOrder>>

\* the action called without the `?.`
ActionCallUnchecked(registry, command) ==
  [fn |-> getCommandAction(registry, command.id, command.type), arg |-> command.id]

\* getCommandAction(...)?.(command.id)
ActionCall(registry, command) ==
  LET action == getCommandAction(registry, command.id, command.type)
  IN IF action = Undefined THEN NoCall ELSE [fn |-> action, arg |-> command.id]

\* commands.filter((c) => c.id !== command.id)
WithoutId(cmds, id) == SelectSeq(cmds, LAMBDA c : c.id # id)

\* props.onClose(false): the dialog is unmounted, and what its suspended onChange
\* calls set later is not displayed
Close ==
  /\ open' = FALSE
  /\ pending' = <<>>

\* onKeyDown for Enter with the action given the title instead of command.id
KeyEnterTitleArgument ==
  /\ open
  /\ IF ~HasCurrent(selected, commands)
       THEN /\ Effects("Enter", NoCacheCall, NoCall, "none", FALSE)
            /\ UNCHANGED <<recent, commands, selected, pending, open, addOrder>>
     ELSE LET command == commands[selected.y + 1] IN
       IF selected.x = 1
         THEN /\ selected' = Origin
              /\ recent' = removeRecentCommand(recent, command.id)
              /\ commands' = WithoutId(commands, command.id)
              /\ Effects("Enter", RemoveCall(recent, command.id), NoCall, "none",
                       removeRecentCommandSets(recent, command.id))
              /\ addOrder' = Stored(addOrder, recent')
              /\ UNCHANGED <<pending, open>>
         ELSE /\ recent' = addRecentCommand(recent, command)
              /\ addOrder' = Touch(addOrder, command, recent')
              /\ Close
              /\ selected' = Origin
              /\ Effects("Enter", AddCall(recent, command),
                       [ActionCall(COMMANDS, command) EXCEPT !.arg = command.title],
                       "none", addRecentCommandSets(command))
              /\ UNCHANGED commands
  /\ UNCHANGED <<input, output, COMMANDS, query, loading>>

\* onKeyDown, e.key == "Enter"
KeyEnter ==
  /\ open
  /\ IF ~HasCurrent(selected, commands)
       THEN /\ Effects("Enter", NoCacheCall, NoCall, "none", FALSE)
            /\ UNCHANGED <<recent, commands, selected, pending, open, addOrder>>
     ELSE LET command == commands[selected.y + 1] IN
       IF selected.x = 1
         THEN /\ selected' = Origin
              /\ recent' = removeRecentCommand(recent, command.id)
              /\ commands' = WithoutId(commands, command.id)
              /\ Effects("Enter", RemoveCall(recent, command.id), NoCall, "none",
                       removeRecentCommandSets(recent, command.id))
              /\ addOrder' = Stored(addOrder, recent')
              /\ UNCHANGED <<pending, open>>
         ELSE /\ recent' = addRecentCommand(recent, command)
              /\ addOrder' = Touch(addOrder, command, recent')
              /\ Close
              /\ selected' = Origin
              /\ Effects("Enter", AddCall(recent, command),
                       ActionCall(COMMANDS, command), "none",
                       addRecentCommandSets(command))
              /\ UNCHANGED commands
  /\ UNCHANGED <<input, output, COMMANDS, query, loading>>

\* onKeyDown with an arrow key: setSelected(move(selected, commands)), or the
\* TypeError of move
Arrow(key, next) ==
  /\ open
  /\ IF moveSelectionThrows(selected, commands)
       THEN /\ Effects(key, NoCacheCall, NoCall, "TypeError", FALSE)
            /\ UNCHANGED selected
       ELSE /\ Effects(key, NoCacheCall, NoCall, "none", FALSE)
            /\ selected' = next
  /\ UNCHANGED <<input, output, COMMANDS, recent, commands, query, loading, pending, open, addOrder>>

KeyArrowDown == Arrow("ArrowDown", moveSelectionDown(selected, commands))

KeyArrowUp == Arrow("ArrowUp", moveSelectionUp(selected, commands))

KeyArrowRight == Arrow("ArrowRight", moveSelectionRight(selected, commands))

KeyArrowLeft == Arrow("ArrowLeft", moveSelectionLeft(selected, commands))

\* onClick of the button of the item at index i - 1
ClickItem(i) ==
  /\ open
  /\ i \in 1..Len(commands)
  /\ LET command == commands[i] IN
       /\ recent' = addRecentCommand(recent, command)
       /\ addOrder' = Touch(addOrder, command, recent')
       /\ Effects("clickItem", AddCall(recent, command),
                  ActionCall(COMMANDS, command), "none", addRecentCommandSets(command))
  /\ Close
  /\ UNCHANGED <<input, output, COMMANDS, commands, selected, query, loading>>

\* onClick of the remove-from-recent button of the item at index i - 1,
\* rendered when command.group === "recent"
ClickRemove(i) ==
  /\ open
  /\ i \in 1..Len(commands)
  /\ commands[i].group = "recent"
  /\ LET command == commands[i] IN
       /\ recent' = removeRecentCommand(recent, command.id)
       /\ commands' = WithoutId(commands, command.id)
       /\ Effects("clickRemove", RemoveCall(recent, command.id), NoCall, "none",
                  removeRecentCommandSets(recent, command.id))
  /\ addOrder' = Stored(addOrder, recent')
  /\ UNCHANGED <<input, output, COMMANDS, selected, query, loading, pending, open>>

\* the dialog is opened again: a new CommandPaletteDialog is mounted
Reopen(mode) ==
  /\ ~open
  /\ open' = TRUE
  /\ Mount(mode, recent, COMMANDS)
  /\ Effects("open", NoCacheCall, NoCall, "none", FALSE)
  /\ UNCHANGED <<input, output, COMMANDS, recent, pending, addOrder>>

Next ==
  \/ \E q \in Queries : OnChangeImmediate(q)
  \/ \E q \in Queries : OnChangeLookup(q)
  \/ \E i \in 1..MaxPending : SearchDone(i)
  \/ \E i \in 1..MaxPending : SearchFail(i)
  \/ KeyEnter
  \/ KeyArrowDown
  \/ KeyArrowUp
  \/ KeyArrowRight
  \/ KeyArrowLeft
  \/ \E i \in 1..Len(commands) : ClickRemove(i)
  \/ \E i \in 1..Len(commands) : ClickItem(i)
  \/ \E mode \in BOOLEAN : Reopen(mode)

Spec == Init /\ [][Next]_vars

\* a command cached while the registry still had it: "c0" is in no registry here
StaleCommand == Cmd("c0", Sx, "command", "recent")

\* the dialog opened in command mode on a store that holds StaleCommand
InitStale ==
  /\ COMMANDS = RegistryContiguous
  /\ recent = <<StaleCommand>>
  /\ commands = getDefaultCommands(recent, COMMANDS)
  /\ query = <<">">>
  /\ selected = Origin
  /\ loading = FALSE
  /\ pending = <<>>
  /\ open = TRUE
  /\ lastEvent = "open"
  /\ cacheCall = NoCacheCall
  /\ invoked = NoCall
  /\ error = "none"
  /\ stored = FALSE
  /\ addOrder = <<StaleCommand.id>>
  /\ input = Undefined
  /\ output = Undefined

SpecStale == InitStale /\ [][Next]_vars

-----------------------------------------------------------------------------
(* The recency cache on its own: addRecentCommand and removeRecentCommand called
   in any order with any command, no dialog mounted *)

CacheIds == {"x", "y", "z", "w"}

CacheCommands ==
  [id : CacheIds, title : {Sx}, highlightedTitle : {Undefined, "set"},
   type : {"note", "tag", "command-dynamic"}, group : {"Note", "recent"}]

InitCache ==
  /\ COMMANDS \in Registries
  /\ recent = <<>>
  /\ commands = <<>>
  /\ query = <<>>
  /\ selected = Origin
  /\ loading = FALSE
  /\ pending = <<>>
  /\ open = FALSE
  /\ lastEvent = "none"
  /\ cacheCall = NoCacheCall
  /\ invoked = NoCall
  /\ error = "none"
  /\ stored = FALSE
  /\ addOrder = <<>>
  /\ input = Undefined
  /\ output = Undefined

CacheAdd(command) ==
  /\ recent' = addRecentCommand(recent, command)
  /\ addOrder' = Touch(addOrder, command, recent')
  /\ Effects("addRecentCommand", AddCall(recent, command), NoCall, "none",
             addRecentCommandSets(command))
  /\ UNCHANGED <<input, output, COMMANDS, commands, selected, query, loading, pending, open>>

CacheRemove(id) ==
  /\ recent' = removeRecentCommand(recent, id)
  /\ addOrder' = Stored(addOrder, recent')
  /\ Effects("removeRecentCommand", RemoveCall(recent, id), NoCall, "none",
             removeRecentCommandSets(recent, id))
  /\ UNCHANGED <<input, output, COMMANDS, commands, selected, query, loading, pending, open>>

NextCache ==
  \/ \E command \in CacheCommands : CacheAdd(command)
  \/ \E id \in CacheIds : CacheRemove(id)

SpecCache == InitCache /\ [][NextCache]_vars

-----------------------------------------------------------------------------
(* The pure functions on their own: each is called once with an argument
   drawn from a bounded set, no dialog mounted *)

\* no dialog is mounted, the store is empty and no function was called
Unmounted ==
  /\ recent = <<>>
  /\ commands = <<>>
  /\ query = <<>>
  /\ selected = Origin
  /\ loading = FALSE
  /\ pending = <<>>
  /\ open = FALSE
  /\ lastEvent = "none"
  /\ cacheCall = NoCacheCall
  /\ invoked = NoCall
  /\ error = "none"
  /\ stored = FALSE
  /\ addOrder = <<>>
  /\ output = Undefined

\* a function returned value: nothing else changes
Returns(fn, value) ==
  /\ lastEvent = "none"
  /\ lastEvent' = fn
  /\ output' = value
  /\ UNCHANGED <<input, COMMANDS, recent, commands, selected, query, loading, pending,
                 open, cacheCall, invoked, error, stored, addOrder>>

RawChars == {">", " ", "\t", "x"}

RawStrings == UNION { [1..n -> RawChars] : n \in 0..MaxRawLen }

InitClassify ==
  /\ Unmounted
  /\ COMMANDS = <<>>
  /\ input \in RawStrings

\* isCommandMode(input) and prepareQuery(input)
Classify ==
  Returns("classify", [command |-> isCommandMode(input), prepared |-> prepareQuery(input)])

SpecClassify == InitClassify /\ [][Classify]_vars

SortGroups == {"recent", "G1", "G2"}

\* the lists given to sortCommands: the command at index i has id i
SortInputs ==
  UNION { { [i \in 1..n |-> [id |-> i, title |-> Sx, highlightedTitle |-> Undefined,
                             type |-> "command", group |-> g[i]]] :
              g \in [1..n -> SortGroups] } :
          n \in 0..MaxSortLen }

InitSort ==
  /\ Unmounted
  /\ COMMANDS = <<>>
  /\ input \in SortInputs

Sort == Returns("sortCommands", sortCommands(input))

SpecSort == InitSort /\ [][Sort]_vars

\* the entries the registries given to resolveCommands are made of
RegistryEntries ==
  { Entry(id, title, group, hidden, FALSE) :
      id \in {"a", "b"}, title \in {Sx, Sy, NoTitle},
      group \in {"G1", Undefined}, hidden \in BOOLEAN }

RegistryInputs == UNION { [1..n -> RegistryEntries] : n \in 0..MaxRegistryLen }

InitResolve ==
  /\ Unmounted
  /\ COMMANDS \in RegistryInputs
  /\ input = Undefined

Resolve == Returns("resolveCommands", resolveCommands(COMMANDS))

SpecResolve == InitResolve /\ [][Resolve]_vars

-----------------------------------------------------------------------------
(* Properties *)

Ids(cmds) == [i \in 1..Len(cmds) |-> cmds[i].id]

Occurrences(cmds, id) == Cardinality({i \in 1..Len(cmds) : cmds[i].id = id})

\* C1: starting from an empty cache, after any sequence of addRecentCommand and
\* removeRecentCommand calls the persisted list has at most 3 entries, no two
\* entries share an id, and the entries are in the order of their last add, the
\* most recent first
C1_CacheBoundedDistinctOrdered ==
  /\ Len(recent) <= 3
  /\ \A i, j \in 1..Len(recent) : i # j => recent[i].id # recent[j].id
  /\ Ids(recent) = addOrder

\* C1 witness: a full cache left by an add that found its id at the end
C1_Witness ==
  /\ Len(recent) = 3
  /\ lastEvent = "addRecentCommand"
  /\ cacheCall.found
  /\ stored
  /\ Ids(recent) = <<"w", "z", "y">>


\* C8: addRecentCommand(c) for a non-dynamic c whose id is in the cache leaves a
\* list whose first entry has id c.id, in which c.id occurs once, and whose other
\* entries are the previous entries of other ids in their previous order (so
\* add x, add y, add x on an empty cache leaves [x, y])
C8_AddOfCachedIdMovesToFront ==
  [][(/\ lastEvent' = "addRecentCommand"
      /\ cacheCall'.arg.type # "command-dynamic"
      /\ Occurrences(recent, cacheCall'.arg.id) > 0)
     => /\ recent' # <<>>
        /\ recent'[1].id = cacheCall'.arg.id
        /\ Occurrences(recent', cacheCall'.arg.id) = 1
        /\ Tail(recent') = WithoutId(recent, cacheCall'.arg.id)
        /\ (Ids(recent) = <<"y", "x">> /\ cacheCall'.arg.id = "x"
              => Ids(recent') = <<"x", "y">>)]_vars

\* C8 witness: x, then y, then x again were added: the cache is [x, y] and the
\* last add found its id
C8_Witness ==
  /\ lastEvent = "addRecentCommand"
  /\ cacheCall.found
  /\ cacheCall.arg.id = "x"
  /\ cacheCall.arg.type = "note"
  /\ Ids(recent) = <<"x", "y">>

\* C9: addRecentCommand(c) with c.type = "command-dynamic" leaves the persisted
\* cache as it was, and no persisted entry has the type "command-dynamic"
C9_DynamicCommandNotCached ==
  /\ [][(lastEvent' = "addRecentCommand" /\ cacheCall'.arg.type = "command-dynamic")
          => recent' = recent]_vars
  /\ [](\A i \in 1..Len(recent) : recent[i].type # "command-dynamic")

\* C9 witness: a dynamic command was given to addRecentCommand on a cache of two
C9_Witness ==
  /\ lastEvent = "addRecentCommand"
  /\ cacheCall.arg.type = "command-dynamic"
  /\ Len(recent) = 2

\* C2: the displayed list is only ever replaced by the response to the most
\* recently issued query: a search that returns after a newer query was issued
\* does not update it
C2_OnlyLatestResponseShown ==
  [][lastEvent' = "searchDone"
       => \A i \in 1..Len(pending) : SearchDone(i) => pending[i].latest]_vars

\* C3: with a non-empty displayed list of length N, the cursor row is in 0..N-1
C3_RowInRange ==
  (open /\ Len(commands) > 0) => selected.y \in 0..(Len(commands) - 1)

\* C4: the cursor column is 0 or 1, and it is 1 only when the command at the
\* cursor row has group "recent"
C4_ColumnOneOnlyOnRecent ==
  open => /\ selected.x \in {0, 1}
          /\ (selected.x = 1) =>
                (HasCurrent(selected, commands) /\ commands[selected.y + 1].group = "recent")

\* C5: right after the displayed list is replaced by a query result the cursor
\* is (0,0)
C5_CursorAtOriginAfterResult ==
  (open /\ lastEvent \in {"onChange", "searchDone"}) => selected = Origin

\* C6: with an empty displayed list every navigation event leaves the cursor,
\* the list and the recency cache as they were and raises no error
C6_NavigationOnEmptyListIsNoOp ==
  [][(/\ Len(commands) = 0
      /\ lastEvent' \in {"Enter", "ArrowDown", "ArrowUp", "ArrowRight", "ArrowLeft"})
     => /\ UNCHANGED <<selected, commands, recent>>
        /\ error' = "none"]_vars

RECURSIVE Expand(_)
\* count copies of each group label of a summary, pair by pair
Expand(summary) ==
  IF summary = <<>> THEN <<>>
  ELSE [i \in 1..Head(summary).count |-> Head(summary).group] \o Expand(Tail(summary))

RECURSIVE SumCounts(_)
SumCounts(summary) ==
  IF summary = <<>> THEN 0 ELSE Head(summary).count + SumCounts(Tail(summary))

\* C7: for every displayed list and the group summary derived from it, the
\* counts add up to the length of the list and the summary expanded pair by pair
\* gives the group label of the list entry at every index
C7_GroupSummaryMatchesList ==
  open => /\ SumCounts(grouped(commands)) = Len(commands)
          /\ Expand(grouped(commands)) = [i \in 1..Len(commands) |-> commands[i].group]

\* C10: Enter at column 0 on a row that holds a command calls the action
\* resolved from the command's id and type with the command's id, gives the
\* command to addRecentCommand (so that, unless it is dynamic, it is the first
\* cache entry afterwards) and closes the palette; on a row that holds no command
\* it does nothing
C10_EnterAtColumn0 ==
  [][(lastEvent' = "Enter" /\ open /\ selected.x = 0)
     => IF HasCurrent(selected, commands)
          THEN LET command == commands[selected.y + 1]
                   action == getCommandAction(COMMANDS, command.id, command.type)
               IN /\ action # Undefined => invoked' = [fn |-> action, arg |-> command.id]
                  /\ action = Undefined => invoked' = NoCall
                  /\ cacheCall'.fn = "addRecentCommand"
                  /\ cacheCall'.arg = command
                  /\ IF command.type = "command-dynamic"
                       THEN recent' = recent
                       ELSE recent' # <<>> /\ recent'[1].id = command.id
                  /\ open' = FALSE
          ELSE /\ invoked' = NoCall
               /\ cacheCall' = NoCacheCall
               /\ stored' = FALSE
               /\ error' = "none"
               /\ UNCHANGED <<recent, commands, selected, query, loading, pending, open>>]_vars

\* C10 witness: Enter on a note that was not the first cache entry: openSession
\* was called with its id, it is the first of two cache entries, the palette is closed
C10_Witness ==
  /\ lastEvent = "Enter"
  /\ ~open
  /\ invoked = [fn |-> "openSession", arg |-> "n1"]
  /\ Len(recent) >= 2
  /\ recent[1].id = "n1"

\* C11: Enter at column 1 on a row that holds a command removes the command's id
\* from the recency cache, replaces the displayed list by the list without the
\* entry at the cursor row (every other entry is kept, in order, also an entry
\* of another group with the same id), sets the cursor to (0,0) and does not
\* close the palette
C11_EnterAtColumn1 ==
  [][(lastEvent' = "Enter" /\ selected.x = 1 /\ HasCurrent(selected, commands))
     => /\ recent' = SelectSeq(recent, LAMBDA c : c.id # commands[selected.y + 1].id)
        /\ commands' = Splice1(commands, selected.y + 1)
        /\ selected' = Origin
        /\ open' = TRUE]_vars

\* C12: with a non-empty list of length N, ArrowDown sets the row to
\* (row + 1) mod N and ArrowUp sets it to (row - 1 + N) mod N; the column is
\* kept when the commands at the old and at the new row both have group
\* "recent" and is 0 otherwise
C12_MoveDownUp ==
  [][(lastEvent' \in {"ArrowDown", "ArrowUp"} /\ Len(commands) > 0)
     => LET N == Len(commands)
            nextRow == IF lastEvent' = "ArrowDown" THEN (selected.y + 1) % N
                       ELSE (selected.y - 1 + N) % N
        IN /\ selected'.y = nextRow
           /\ HasCurrent(selected, commands)
           /\ selected'.x = IF /\ commands[selected.y + 1].group = "recent"
                               /\ commands[nextRow + 1].group = "recent"
                              THEN selected.x
                              ELSE 0]_vars

\* C13: ArrowRight and ArrowLeft leave the cursor as it is when the command at
\* the cursor row has a group other than "recent" (and when the row holds no
\* command); on a "recent" row they set the column to (col + 1) mod 2 and leave
\* the row as it is
C13_MoveRightLeft ==
  [][lastEvent' \in {"ArrowRight", "ArrowLeft"}
     => IF HasCurrent(selected, commands) /\ commands[selected.y + 1].group = "recent"
          THEN selected' = [x |-> (selected.x + 1) % 2, y |-> selected.y]
          ELSE selected' = selected]_vars

\* C13 witness: ArrowLeft on the second of two recent rows moved the cursor from
\* column 0 to column 1
C13_Witness ==
  /\ lastEvent = "ArrowLeft"
  /\ open
  /\ selected = [x |-> 1, y |-> 1]
  /\ Len(commands) >= 3
  /\ commands[2].group = "recent"
  /\ commands[3].group # "recent"

\* C14: the loading indicator is active only while a search-mode query is in
\* flight, and a command-mode query, issued and completed, leaves the indicator
\* as it was
C14_LoadingOnlyForLookups ==
  [][/\ (open' /\ loading') => pending' # <<>>
     /\ (lastEvent' = "onChange" /\ isCommandMode(query')) => loading' = loading]_vars

\* a registry entry that is not hidden and has a group and a title
Listable(e) == ~e.hidden /\ e.group # Undefined /\ e.title # NoTitle

\* the command a registry entry is listed as
AsCommand(e) ==
  [id |-> e.id, title |-> e.title, highlightedTitle |-> Undefined,
   type |-> IF e.dynamic THEN "command-dynamic" ELSE "command", group |-> e.group]

\* the listable entries of a registry, one per id (the first listable entry of
\* the id), in registry order, as commands
VisibleEntries(registry) ==
  LET first(i) == /\ Listable(registry[i])
                  /\ \A j \in 1..(i - 1) :
                       ~(Listable(registry[j]) /\ registry[j].id = registry[i].id)
      kept == SelectSeq([i \in 1..Len(registry) |-> i], first)
  IN [k \in 1..Len(kept) |-> AsCommand(registry[kept[k]])]

\* C15, as claimed: whatever the recency cache holds, a command-mode search with
\* an empty prepared query returns exactly the visible entries of the registry,
\* in registry order
C15_EmptyCommandSearchIsRegistry ==
  commandSearch(recent, COMMANDS, <<>>) = {VisibleEntries(COMMANDS)}

\* C15, amended: a command-mode search with an empty prepared query returns the
\* entries of the recency cache, most recent first, followed by the visible
\* entries of the registry in registry order
C15_EmptyCommandSearchIsRecentThenRegistry ==
  commandSearch(recent, COMMANDS, <<>>) = {recent \o VisibleEntries(COMMANDS)}

\* C15 witness: the query ">" was typed with two commands in the cache, and the
\* list shown is the two followed by the registry's visible entries
C15_Witness ==
  /\ lastEvent = "onChange"
  /\ query = <<">">>
  /\ Len(recent) = 2
  /\ Len(commands) = 2 + Len(VisibleEntries(COMMANDS))
  /\ Ids(commands) = Ids(recent \o VisibleEntries(COMMANDS))

\* C16: for every string raw, the mode is command iff raw starts with ">", and
\* prepared is raw without one leading ">" (when it has one), then without the
\* white space at both ends: ">>x" gives ">x", and " >x" gives search mode with
\* prepared ">x"
C16_Classify ==
  lastEvent = "classify" =>
    LET sentinel == input # <<>> /\ Head(input) = ">"
        rest == IF sentinel THEN Tail(input) ELSE input
        inked == {i \in 1..Len(rest) : rest[i] \notin {" ", "\t"}}
        from == CHOOSE i \in inked : \A j \in inked : i <= j
        to == CHOOSE i \in inked : \A j \in inked : j <= i
    IN /\ output.command = sentinel
       /\ output.prepared = IF inked = {} THEN <<>> ELSE SubSeq(rest, from, to)
       /\ input = <<">", ">", "x">> => output = [command |-> TRUE, prepared |-> <<">", "x">>]
       /\ input = <<" ", ">", "x">> => output = [command |-> FALSE, prepared |-> <<">", "x">>]

\* C16 witness: "> >x" was classified: command mode, prepared ">x"
C16_Witness ==
  /\ lastEvent = "classify"
  /\ input = <<">", " ", ">", "x">>
  /\ output = [command |-> TRUE, prepared |-> <<">", "x">>]

\* no action is bound to the id and type of a command: its type resolves through
\* the registry and no registry entry has its id
Unbound(registry, command) ==
  /\ command.type \in {"command", "command-dynamic"}
  /\ \A i \in 1..Len(registry) : registry[i].id # command.id

\* C17: activating (Enter at column 0, or a click on) a command whose id and
\* type have no bound action calls no action and raises no error
C17_UnboundActionIsSilent ==
  [][(/\ lastEvent' \in {"Enter", "clickItem"}
      /\ cacheCall'.fn = "addRecentCommand"
      /\ Unbound(COMMANDS, cacheCall'.arg))
     => /\ invoked' = NoCall
        /\ error' = "none"]_vars

\* C17 witness: Enter activated the cached command "c0", which the registry does
\* not have: no action was called, no error raised, and the palette is closed
C17_Witness ==
  /\ lastEvent = "Enter"
  /\ cacheCall.fn = "addRecentCommand"
  /\ cacheCall.arg.id = "c0"
  /\ Unbound(COMMANDS, cacheCall.arg)
  /\ invoked = NoCall
  /\ error = "none"
  /\ ~open

\* C18: sortCommands returns a permutation of its input with the entries of
\* group "recent" first, in input order, then the other groups as contiguous
\* blocks in the order of each group's first occurrence in the input, the input
\* order kept inside every block
C18_SortCommands ==
  lastEvent = "sortCommands" =>
    LET block(c) == IF c.group = "recent" THEN 0
                    ELSE CHOOSE i \in 1..Len(input) :
                           /\ input[i].group = c.group
                           /\ \A j \in 1..(i - 1) : input[j].group # c.group
    IN /\ Len(output) = Len(input)
       /\ {output[i] : i \in 1..Len(output)} = {input[i] : i \in 1..Len(input)}
       /\ \A p, q \in 1..Len(output) :
            p < q => \/ block(output[p]) < block(output[q])
                     \/ /\ output[p].group = output[q].group
                        /\ output[p].id < output[q].id

\* C18 witness: G1, recent, G2, G1 was sorted into recent, G1, G1, G2
C18_Witness ==
  /\ lastEvent = "sortCommands"
  /\ [i \in 1..Len(input) |-> input[i].group] = <<"G1", "recent", "G2", "G1">>
  /\ [i \in 1..Len(output) |-> output[i].id] = <<2, 1, 4, 3>>

\* the index of the first entry of a registry that has the id and satisfies P;
\* 0 when there is none
FirstOf(registry, id, P(_)) ==
  LET hits == {i \in 1..Len(registry) : registry[i].id = id /\ P(registry[i])}
  IN IF hits = {} THEN 0 ELSE CHOOSE i \in hits : \A j \in hits : i <= j

\* C19, as claimed: in the list resolveCommands returns each id occurs at most
\* once, no entry comes from a registry entry that is hidden or has no group or
\* no title, the entry of an id is taken from the first registry entry with that
\* id, and the entries are in registry order
C19_ResolveTakesFirstEntry ==
  lastEvent = "resolveCommands" =>
    LET source(c) == FirstOf(COMMANDS, c.id, LAMBDA e : TRUE)
    IN /\ \A p, q \in 1..Len(output) : p # q => output[p].id # output[q].id
       /\ \A p \in 1..Len(output) :
            /\ source(output[p]) # 0
            /\ Listable(COMMANDS[source(output[p])])
            /\ output[p] = AsCommand(COMMANDS[source(output[p])])
       /\ \A p, q \in 1..Len(output) : p < q => source(output[p]) < source(output[q])

\* C19, amended: as claimed, but the entry of an id is taken from the first
\* registry entry with that id that is not hidden and has a group and a title
C19_ResolveTakesFirstListableEntry ==
  lastEvent = "resolveCommands" =>
    LET source(c) == FirstOf(COMMANDS, c.id, Listable)
    IN /\ \A p, q \in 1..Len(output) : p # q => output[p].id # output[q].id
       /\ \A p \in 1..Len(output) :
            /\ source(output[p]) # 0
            /\ output[p] = AsCommand(COMMANDS[source(output[p])])
       /\ \A p, q \in 1..Len(output) : p < q => source(output[p]) < source(output[q])

\* C19 witness: a registry of a hidden "a", a listable "a" and a listable "b"
\* was resolved to the second "a" and "b"
C19_Witness ==
  /\ lastEvent = "resolveCommands"
  /\ COMMANDS = << Entry("a", Sx, "G1", TRUE, FALSE),
                   Entry("a", Sy, "G1", FALSE, FALSE),
                   Entry("b", Sx, "G1", FALSE, FALSE) >>
  /\ output = << Cmd("a", Sy, "command", "G1"), Cmd("b", Sx, "command", "G1") >>

\* C20: removeRecentCommand(id) takes the entry with that id out of the
\* persisted cache and keeps the other entries in their order; when no entry
\* has that id the persisted cache is as it was and nothing is written to the
\* store
C20_RemoveRecentCommand ==
  [][lastEvent' = "removeRecentCommand"
     => IF \E i \in 1..Len(recent) : recent[i].id = cacheCall'.arg
          THEN /\ Len(recent') = Len(recent) - 1
               /\ recent' = SelectSeq(recent, LAMBDA c : c.id # cacheCall'.arg)
          ELSE /\ recent' = recent
               /\ stored' = FALSE]_vars

\* C20 witness: "y" was removed from between "x" and "z", and the store written
C20_Witness ==
  /\ lastEvent = "removeRecentCommand"
  /\ cacheCall.arg = "y"
  /\ cacheCall.found
  /\ stored
  /\ Ids(recent) = <<"x", "z">>

\* C21: when the search of a query fails, the displayed list (and the cursor,
\* the query and the cache) is as it was before the failure, the loading
\* indicator is inactive and the palette stays open; in the state after it the
\* key events and a new query are handled as before
C21_SearchFailureLeavesListAndStopsLoading ==
  /\ [][lastEvent' = "searchFail"
          => /\ commands' = commands
             /\ loading' = FALSE
             /\ open' = TRUE
             /\ UNCHANGED <<selected, query, recent>>]_vars
  /\ [](lastEvent = "searchFail"
          => /\ ENABLED KeyEnter
             /\ ENABLED KeyArrowDown
             /\ ENABLED OnChangeLookup(<<"x">>)
             /\ ENABLED OnChangeImmediate(<<">">>))

\* C21 witness: the search of "x" failed with a list shown: the list is still
\* shown, the indicator is inactive and the palette open
C21_Witness ==
  /\ lastEvent = "searchFail"
  /\ error = "rejected"
  /\ query = <<"x">>
  /\ commands # <<>>
  /\ ~loading
  /\ open
  /\ pending = <<>>

====
